---- MODULE Spec2Model ----
(***************************************************************************)
(* Model of ProxyService (resource-to-node routing and reverse-proxy       *)
(* dispatch): configuration subscription, TLS credential load, the         *)
(* setup/start/stop lifecycle and the proxyRequest retry state machine.    *)
(* The Routing Store (ClusterDocClient), the configuration stream and the  *)
(* backend nodes are the environment.                                      *)
(***************************************************************************)
EXTENDS Integers, Sequences, FiniteSets, TLC

\* ------------------------------------------------------------------ bounds

\* Largest maxRetry value a configuration of the model carries.
MaxRetryCfg == 1

\* ------------------------------------------------------------------ values

Invocations == {"a", "b"}

\* The invocations the gateway makes under SpecDispatch.
Called == {"a"}

Resources == {"/r1", "/r2"}

Nodes == {"n1", "n2"}

Initializing == "Initializing"

Active == "Active"

RouteState == {Initializing, Active}

RoutingNode == [node : Nodes, state : RouteState]

\* getNodeForResource's "no entry" answer.
Absent == [node |-> "-", state |-> "Absent"]

\* The normalized requests the gateway hands in: method, path, headers, body.
Requests ==
  { [method |-> "GET", path |-> "/r1", headers |-> "h1", body |-> "b1"],
    [method |-> "POST", path |-> "/r2", headers |-> "h2", body |-> "b2"] }

NoReq == [method |-> "-", path |-> "-", headers |-> "-", body |-> "-"]

\* Explicit resource argument of proxyRequest; NoArg is "not given".
NoArg == "undefined"

Payloads == {"d1", "d2"}

\* What a promise resolved by resolve() with no argument carries.
Undefined == "undefined"

\* The two deployments a configuration of the model describes: its port, its
\* backoff and the TLS set its cert/key/ca paths name.
Profiles ==
  { [port |-> 5601, requestBackoff |-> 10, tls |-> "A"],
    [port |-> 5602, requestBackoff |-> 50, tls |-> "B"] }

Configs ==
  { [port |-> p.port, maxRetry |-> m, requestBackoff |-> p.requestBackoff,
     tls |-> p.tls] : p \in Profiles, m \in 0..MaxRetryCfg }

\* "The stream has emitted nothing yet."
NoConfig == [port |-> 0, maxRetry |-> 0, requestBackoff |-> 0, tls |-> "none"]

TlsFiles == {"cert", "key", "ca"}

NoCreds == [cert |-> <<"none", "cert">>, key |-> <<"none", "key">>, ca |-> <<"none", "ca">>]

NoErr == [kind |-> "none", node |-> "-", resource |-> "-", cause |-> "-"]

Causes == {"ECONNREFUSED"}

Pending == [state |-> "pending", value |-> Undefined, err |-> NoErr]

Resolved(v) == [state |-> "resolved", value |-> v, err |-> NoErr]

Rejected(e) == [state |-> "rejected", value |-> Undefined, err |-> e]

Max(a, b) == IF a >= b THEN a ELSE b

\* ------------------------------------------------------------------ state

VARIABLES
  emitted,            \* config$: the configuration last emitted, NoConfig if none
  emittedAfterStop,   \* history: config$ emitted after a stop() had returned
  port,               \* this.port
  maxRetry,           \* this.maxRetry
  requestBackoff,     \* this.requestBackoff
  configSubscription, \* TRUE iff this.configSubscription is held
  httpsAgent,         \* this.httpsAgent: the verified-TLS handle
  httpAgent,          \* this.httpAgent: the plain handle
  allowUnauthAgent,   \* this.allowUnauthAgent: the TLS-unverified-allowed handle
  wreck,              \* this.wreck: the agents the outbound client was built with
  setupPc,            \* position of setup()
  setupConfig,        \* setup's local `config`
  setupSsl,           \* setup's local `ssl`
  failedReads,        \* history: the files whose readFileAsync rejected
  server,             \* what createNewServer was asked for, once it returned
  startPc,            \* position of start()
  stopPc,             \* position of stop()
  stopTrace,          \* what the current / last stop() call did, in order
  routing,            \* the Routing Store's table: resource -> RoutingNode
  inv                 \* the top-level proxyRequest invocations

svcVars ==
  << emitted, emittedAfterStop, port, maxRetry, requestBackoff, configSubscription, httpsAgent,
     httpAgent, allowUnauthAgent, wreck, setupPc, setupConfig, setupSsl,
     failedReads, server, startPc, stopPc, stopTrace >>

vars == << svcVars, routing, inv >>

cfgFields == << port, maxRetry, requestBackoff >>

agentVars == << httpsAgent, httpAgent, allowUnauthAgent, wreck >>

setupVars == << setupPc, setupConfig, setupSsl, failedReads, server >>

\* An HTTPS agent: `gen` tells the handles apart, `creds` is what it presents.
HTTPSAgent(gen, creds) == [gen |-> gen, creds |-> creds]

\* The module-level Wreck, before Wreck.defaults gave it agents.
WreckDefault == [https |-> "global", http |-> "global", httpsAllowUnauthorized |-> "global"]

NoSsl == [enabled |-> FALSE, redirectHttpFromPort |-> 0, creds |-> NoCreds]

NoServer == [port |-> 0, ssl |-> NoSsl]

\* One top-level invocation before it is called.
IdleInv ==
  [ pc |-> "idle",          \* idle, waiting (timer armed), forwarding, reading, done
    req |-> NoReq,
    arg |-> NoArg,          \* history: the resource argument of the top-level call
    resource |-> "-",       \* the effective resource, as passed on to each retry
    looked |-> "-",         \* history: the resource the last lookup asked for
    waitedOn |-> "-",       \* history: the address last found Initializing
    retryCount |-> 0,       \* retryCount of the innermost attempt
    timer |-> 0,            \* delay of the armed timer; 0 when none is armed
    node |-> Absent,        \* `node` of the attempt that is forwarding
    lookups |-> 0,          \* history: getNodeForResource calls so far
    waits |-> 0,            \* history: timers armed so far
    budget |-> 0,           \* history: largest this.maxRetry read by a retry decision
    calls |-> << >>,        \* history: the wreck.request calls made, in order
    response |-> Undefined, \* history: payload the backend answered with
    attemptErr |-> NoErr,   \* error the innermost attempt threw
    unhandled |-> FALSE,    \* that error was thrown inside a timer callback
    result |-> Pending ]    \* the promise the original caller holds

Init ==
  /\ emitted = NoConfig
  /\ emittedAfterStop = FALSE
  /\ port = 0
  /\ maxRetry = 0
  /\ requestBackoff = 0
  /\ configSubscription = FALSE
  /\ httpsAgent = HTTPSAgent(0, NoCreds)
  /\ httpAgent = "httpAgent"
  /\ allowUnauthAgent = "allowUnauthAgent"
  /\ wreck = WreckDefault
  /\ setupPc = "none"
  /\ setupConfig = NoConfig
  /\ setupSsl = NoSsl
  /\ failedReads = {}
  /\ server = NoServer
  /\ startPc = "none"
  /\ stopPc = "none"
  /\ stopTrace = << >>
  /\ routing = [r \in Resources |-> Absent]
  /\ inv = [i \in Invocations |-> IdleInv]

\* ------------------------------------------------------------------ configuration

\* Mutant of setConfig: the retry fields are not taken from the configuration.
setConfigPortOnly(config) ==
  [port |-> config.port, maxRetry |-> maxRetry, requestBackoff |-> requestBackoff]

\* setConfig: the three fields copied from a configuration.
setConfig(config) ==
  [port |-> config.port, maxRetry |-> config.maxRetry,
   requestBackoff |-> config.requestBackoff]

ApplyConfig(config) ==
  /\ port' = setConfig(config).port
  /\ maxRetry' = setConfig(config).maxRetry
  /\ requestBackoff' = setConfig(config).requestBackoff

\* What the subscriber installed by setup does with an emitted configuration.
OnConfig(config) == ApplyConfig(config)

\* The configuration stream emits a configuration: the subscriber (if held) runs,
\* and a pending first() of setup takes it.
Emit(c) ==
  /\ emitted' = c
  /\ emittedAfterStop' = (emittedAfterStop \/ stopPc = "stopped")
  /\ IF configSubscription THEN OnConfig(c) ELSE UNCHANGED cfgFields
  /\ IF setupPc = "awaitFirst"
       THEN setupPc' = "gotFirst" /\ setupConfig' = c
       ELSE UNCHANGED << setupPc, setupConfig >>
  /\ UNCHANGED << configSubscription, agentVars, setupSsl, failedReads, server, startPc,
                  stopPc, stopTrace, routing, inv >>

\* ------------------------------------------------------------------ setup / start

\* readFileAsync of the three paths of a configuration, all read successfully:
\* the content of each file, named by the configuration's TLS set and the file.
ReadFiles(config) ==
  [cert |-> << config.tls, "cert" >>, key |-> << config.tls, "key" >>,
   ca |-> << config.tls, "ca" >>]

\* configureSSL after Promise.all resolved: the new agent and the SslConfig.
configureSSL(config, curPort, oldAgent) ==
  [ agent |-> HTTPSAgent(oldAgent.gen + 1, ReadFiles(config)),
    ssl |-> [enabled |-> TRUE, redirectHttpFromPort |-> curPort,
             creds |-> ReadFiles(config)] ]

\* Wreck.defaults({ agent: {...} }) with the handles held at that moment.
WreckDefaults(https, http, unauth) ==
  [https |-> https, http |-> http, httpsAllowUnauthorized |-> unauth]

\* setup() is called: it awaits clusterDocClient.setup.
SetupCall ==
  /\ setupPc = "none"
  /\ stopPc = "none"
  /\ setupPc' = "clusterDoc"
  /\ UNCHANGED << emitted, emittedAfterStop, cfgFields, configSubscription, agentVars, setupConfig,
                  setupSsl, failedReads, server, startPc, stopPc, stopTrace,
                  routing, inv >>

\* clusterDocClient.setup returned: setup subscribes to config$ (which replays the
\* current configuration to the new subscriber) and awaits first().
SetupSubscribe ==
  /\ setupPc = "clusterDoc"
  /\ configSubscription' = TRUE
  /\ IF emitted # NoConfig
       THEN /\ OnConfig(emitted)
            /\ setupPc' = "gotFirst"
            /\ setupConfig' = emitted
       ELSE /\ UNCHANGED cfgFields
            /\ setupPc' = "awaitFirst"
            /\ UNCHANGED setupConfig
  /\ UNCHANGED << emitted, emittedAfterStop, agentVars, setupSsl, failedReads, server, startPc, stopPc,
                  stopTrace, routing, inv >>

\* The await of first() resumes: setConfig(config), then configureSSL starts the
\* three file reads.
SetupGotConfig ==
  /\ setupPc = "gotFirst"
  /\ ApplyConfig(setupConfig)
  /\ setupPc' = "readingFiles"
  /\ UNCHANGED << emitted, emittedAfterStop, configSubscription, agentVars, setupConfig, setupSsl,
                  failedReads,
                  server, startPc, stopPc, stopTrace, routing, inv >>

\* Mutant of SetupFilesRead: the credential load also makes a new plain agent
\* and a new unverified-TLS agent.
SetupFilesReadAllAgentsReplaced(ok) ==
  /\ setupPc = "readingFiles"
  /\ failedReads' = {f \in TlsFiles : ~ok[f]}
  /\ IF \A f \in TlsFiles : ok[f]
       THEN /\ httpsAgent' = configureSSL(setupConfig, port, httpsAgent).agent
            /\ httpAgent' = "httpAgent2"
            /\ allowUnauthAgent' = "allowUnauthAgent2"
            /\ setupSsl' = configureSSL(setupConfig, port, httpsAgent).ssl
            /\ wreck' = WreckDefaults(httpsAgent', httpAgent', allowUnauthAgent')
            /\ setupPc' = "creatingServer"
            /\ UNCHANGED setupConfig
       ELSE /\ setupPc' = "failed"
            /\ setupConfig' = NoConfig
            /\ UNCHANGED << httpsAgent, httpAgent, allowUnauthAgent, setupSsl,
                            wreck >>
  /\ UNCHANGED << emitted, emittedAfterStop, cfgFields, configSubscription, server, startPc,
                  stopPc, stopTrace, routing, inv >>

\* Mutant of SetupFilesRead: setup goes on as soon as one of the files was read.
SetupFilesReadAnyRead(ok) ==
  /\ setupPc = "readingFiles"
  /\ failedReads' = {f \in TlsFiles : ~ok[f]}
  /\ IF \E f \in TlsFiles : ok[f]
       THEN /\ httpsAgent' = configureSSL(setupConfig, port, httpsAgent).agent
            /\ setupSsl' = configureSSL(setupConfig, port, httpsAgent).ssl
            /\ wreck' = WreckDefaults(httpsAgent', httpAgent, allowUnauthAgent)
            /\ setupPc' = "creatingServer"
            /\ UNCHANGED setupConfig
       ELSE /\ setupPc' = "failed"
            /\ setupConfig' = NoConfig
            /\ UNCHANGED << httpsAgent, setupSsl, wreck >>
  /\ UNCHANGED << emitted, emittedAfterStop, cfgFields, configSubscription, httpAgent,
                  allowUnauthAgent, server, startPc, stopPc, stopTrace, routing,
                  inv >>

\* Promise.all of the three reads settles. All read: configureSSL replaces the
\* HTTPS agent, setup builds wreck from the agents and asks for the server. Any
\* read failed: configureSSL, and with it setup, rejects.
SetupFilesRead(ok) ==
  /\ setupPc = "readingFiles"
  /\ failedReads' = {f \in TlsFiles : ~ok[f]}
  /\ IF \A f \in TlsFiles : ok[f]
       THEN /\ httpsAgent' = configureSSL(setupConfig, port, httpsAgent).agent
            /\ setupSsl' = configureSSL(setupConfig, port, httpsAgent).ssl
            /\ wreck' = WreckDefaults(httpsAgent', httpAgent, allowUnauthAgent)
            /\ setupPc' = "creatingServer"
            /\ UNCHANGED setupConfig
       ELSE /\ setupPc' = "failed"
            /\ setupConfig' = NoConfig
            /\ UNCHANGED << httpsAgent, setupSsl, wreck >>
  /\ UNCHANGED << emitted, emittedAfterStop, cfgFields, configSubscription, httpAgent,
                  allowUnauthAgent, server, startPc, stopPc, stopTrace, routing,
                  inv >>

\* createNewServer returned: setup returns { httpSetup }.
SetupServerCreated ==
  /\ setupPc = "creatingServer"
  /\ server' = [port |-> setupConfig.port, ssl |-> setupSsl]
  /\ setupPc' = "done"
  /\ setupConfig' = NoConfig
  /\ setupSsl' = NoSsl
  /\ UNCHANGED << emitted, emittedAfterStop, cfgFields, configSubscription, agentVars, failedReads,
                  startPc,
                  stopPc, stopTrace, routing, inv >>

\* start() is called after setup returned: it awaits clusterDocClient.start.
StartCall ==
  /\ setupPc = "done"
  /\ startPc = "none"
  /\ stopPc = "none"
  /\ startPc' = "starting"
  /\ UNCHANGED << emitted, emittedAfterStop, cfgFields, configSubscription, agentVars, setupVars,
                  stopPc, stopTrace, routing, inv >>

\* clusterDocClient.start returned: start hands out the bound operations.
StartReturn ==
  /\ startPc = "starting"
  /\ startPc' = "started"
  /\ UNCHANGED << emitted, emittedAfterStop, cfgFields, configSubscription, agentVars, setupVars,
                  stopPc, stopTrace, routing, inv >>

\* ------------------------------------------------------------------ stop

\* Mutant of stopBegin: the subscription is dropped before the store is stopped.
stopBeginUnsubscribeFirst(sub) ==
  [trace |-> IF sub THEN << "unsubscribe", "clusterDocClient.stop" >>
                    ELSE << "clusterDocClient.stop" >>,
   sub |-> FALSE]

\* stop() up to its await: clusterDocClient.stop() is called.
stopBegin(sub) ==
  [trace |-> << "clusterDocClient.stop" >>, sub |-> sub]

\* Mutant of stopEnd: no early return, unsubscribe is called whatever is held.
stopEndUnguarded(sub, trace) ==
  [trace |-> Append(trace, "unsubscribe"), sub |-> FALSE]

\* Mutant of stopEnd: the subscription is kept, unsubscribe is never called.
stopEndNoUnsubscribe(sub, trace) ==
  [trace |-> trace, sub |-> sub]

\* stop() after its await: return if no subscription, else unsubscribe and clear.
stopEnd(sub, trace) ==
  IF ~sub
    THEN [trace |-> trace, sub |-> FALSE]
    ELSE [trace |-> Append(trace, "unsubscribe"), sub |-> FALSE]

StopCall ==
  /\ setupPc \in {"none", "done", "failed"}
  /\ startPc # "starting"
  /\ stopPc \in {"none", "stopped"}
  /\ stopPc' = "awaitStore"
  /\ stopTrace' = stopBegin(configSubscription).trace
  /\ configSubscription' = stopBegin(configSubscription).sub
  /\ UNCHANGED << emitted, emittedAfterStop, cfgFields, agentVars, setupVars, startPc, routing, inv >>

StopResume ==
  /\ stopPc = "awaitStore"
  /\ stopPc' = "stopped"
  /\ stopTrace' = stopEnd(configSubscription, stopTrace).trace
  /\ configSubscription' = stopEnd(configSubscription, stopTrace).sub
  /\ UNCHANGED << emitted, emittedAfterStop, cfgFields, agentVars, setupVars, startPc, routing, inv >>

\* ------------------------------------------------------------------ Routing Store

\* clusterDocClient.getNodeForResource: the store's current entry, or Absent.
getNodeForResource(table, resource) == table[resource]

\* assignResource(resource, data), by this service or by another member of the
\* cluster (a node signalling readiness writes its entry with a new state).
AssignResource(r, data) ==
  /\ startPc = "started"
  /\ routing[r] # data
  /\ routing' = [routing EXCEPT ![r] = data]
  /\ UNCHANGED << svcVars, inv >>

\* unassignResource(resource): the entry is removed; no entry is a no-op.
UnassignResource(r) ==
  /\ startPc = "started"
  /\ routing[r] # Absent
  /\ routing' = [routing EXCEPT ![r] = Absent]
  /\ UNCHANGED << svcVars, inv >>

\* ------------------------------------------------------------------ proxyRequest

NoNodeError(resource) ==
  [kind |-> "NoNode", node |-> "-", resource |-> resource, cause |-> "-"]

RetriesExhaustedError ==
  [kind |-> "RetriesExhausted", node |-> "-", resource |-> "-", cause |-> "-"]

\* `Unable to complete request to ${node.node} for ${resource} because ${err.message}`
TransportError(node, resource, cause) ==
  [kind |-> "Transport", node |-> node.node, resource |-> resource, cause |-> cause]

\* What Wreck.read rejects with: the library's own error, passed on as it is.
ReadError(cause) ==
  [kind |-> "Read", node |-> "-", resource |-> "-", cause |-> cause]

\* Mutant of effectiveResource: the explicit resource is ignored.
effectiveResourcePathOnly(resourceArg, req) == req.path

\* resource = resource || url.pathname
effectiveResource(resourceArg, req) ==
  IF resourceArg # NoArg THEN resourceArg ELSE req.path

\* The retry test of an attempt that found its node Initializing.
shouldRetry(retryCount, curMaxRetry) == retryCount <= curMaxRetry

\* Mutant of attempt: a resource without an entry is waited for like an
\* Initializing one.
attemptRetryingUnowned(node, resource, retryCount, curMaxRetry, curBackoff) ==
  IF node = Absent \/ node.state = Initializing
    THEN IF shouldRetry(retryCount, curMaxRetry)
           THEN [kind |-> "wait", err |-> NoErr, delay |-> curBackoff]
           ELSE [kind |-> "throw",
                 err |-> IF node = Absent THEN NoNodeError(resource)
                                          ELSE RetriesExhaustedError,
                 delay |-> 0]
    ELSE [kind |-> "forward", err |-> NoErr, delay |-> 0]

\* One attempt of proxyRequest from its lookup to its first await or throw:
\* what it decides, given the node looked up and the configuration fields it reads.
attempt(node, resource, retryCount, curMaxRetry, curBackoff) ==
  IF node = Absent
    THEN [kind |-> "throw", err |-> NoNodeError(resource), delay |-> 0]
    ELSE IF node.state = Initializing
      THEN IF shouldRetry(retryCount, curMaxRetry)
             THEN [kind |-> "wait", err |-> NoErr, delay |-> curBackoff]
             ELSE [kind |-> "throw", err |-> RetriesExhaustedError, delay |-> 0]
      ELSE [kind |-> "forward", err |-> NoErr, delay |-> 0]

\* Mutant of wreckRequest: the URL is sent with the host it came in with.
wreckRequestHostNotRewritten(req, node, client) ==
  [method |-> req.method, hostname |-> "gateway", path |-> req.path,
   headers |-> req.headers, payload |-> req.body, agents |-> client]

\* this.wreck.request(method, url.toString(), { headers, payload: body }) with
\* url.hostname = node.node.
wreckRequest(req, node, client) ==
  [method |-> req.method, hostname |-> node.node, path |-> req.path,
   headers |-> req.headers, payload |-> req.body, agents |-> client]

\* The caller's promise once the attempt with this retryCount returned v: the
\* top-level attempt returns v itself; a retried attempt runs inside a timer
\* callback that then calls resolve() with no argument, and every enclosing
\* attempt returns what that promise resolved with.
settleReturn(retryCount, v) ==
  IF retryCount = 0 THEN Resolved(v) ELSE Resolved(Undefined)

\* The caller's promise once the attempt with this retryCount threw e: the
\* top-level attempt rejects it; in a retried attempt the timer callback's own
\* promise rejects, resolve() is never reached and the caller's promise stays
\* pending.
settleThrow(retryCount, e) ==
  IF retryCount = 0 THEN Rejected(e) ELSE Pending

\* Mutant of afterAttempt: a retry keeps the address its invocation last waited
\* on instead of the address its own lookup returned.
afterAttemptStaleOwner(v, rc) ==
  LET found == getNodeForResource(routing, v.resource)
      node == IF found # Absent /\ v.waitedOn # "-"
                THEN [found EXCEPT !.node = v.waitedOn] ELSE found
      d == attempt(node, v.resource, rc, maxRetry, requestBackoff)
      looked == [v EXCEPT !.retryCount = rc, !.timer = 0,
                          !.looked = v.resource,
                          !.node = IF d.kind = "forward" THEN node ELSE Absent,
                          !.lookups = v.lookups + 1,
                          !.budget = IF node # Absent /\ node.state = Initializing
                                       THEN Max(v.budget, maxRetry) ELSE v.budget]
  IN  CASE d.kind = "throw" ->
             [looked EXCEPT !.pc = "done", !.attemptErr = d.err,
                            !.unhandled = (rc > 0),
                            !.result = settleThrow(rc, d.err)]
        [] d.kind = "wait" ->
             [looked EXCEPT !.pc = "waiting", !.timer = d.delay,
                            !.waitedOn = node.node,
                            !.waits = looked.waits + 1]
        [] d.kind = "forward" ->
             [looked EXCEPT !.pc = "forwarding",
                            !.calls = Append(looked.calls,
                                             wreckRequest(looked.req, node, wreck))]

\* The invocation record after an attempt with retry count rc ran on record v.
afterAttempt(v, rc) ==
  LET node == getNodeForResource(routing, v.resource)
      d == attempt(node, v.resource, rc, maxRetry, requestBackoff)
      looked == [v EXCEPT !.retryCount = rc, !.timer = 0,
                          !.looked = v.resource,
                          !.node = IF d.kind = "forward" THEN node ELSE Absent,
                          !.lookups = v.lookups + 1,
                          !.budget = IF node # Absent /\ node.state = Initializing
                                       THEN Max(v.budget, maxRetry) ELSE v.budget]
  IN  CASE d.kind = "throw" ->
             [looked EXCEPT !.pc = "done", !.attemptErr = d.err,
                            !.unhandled = (rc > 0),
                            !.result = settleThrow(rc, d.err)]
        [] d.kind = "wait" ->
             [looked EXCEPT !.pc = "waiting", !.timer = d.delay,
                            !.waitedOn = node.node,
                            !.waits = looked.waits + 1]
        [] d.kind = "forward" ->
             [looked EXCEPT !.pc = "forwarding",
                            !.calls = Append(looked.calls,
                                             wreckRequest(looked.req, node, wreck))]

\* The gateway calls proxyRequest(req, resource?) (or a callable of proxyResource).
ProxyCall(i, req, resourceArg) ==
  /\ startPc = "started"
  /\ stopPc = "none"
  /\ inv[i].pc = "idle"
  /\ inv' = [inv EXCEPT ![i] =
               afterAttempt([inv[i] EXCEPT !.req = req, !.arg = resourceArg,
                               !.resource = effectiveResource(resourceArg, req)], 0)]
  /\ UNCHANGED << svcVars, routing >>

\* The gateway calls the callable proxyResource(resource) returned, with req.
ProxyResourceCall(i, resource, req) == ProxyCall(i, req, resource)

\* The backoff timer fires: proxyRequest(req, resource, ++retryCount).
\* Mutant of TimerFire: the retry count is one counter shared by all invocations.
TimerFireSharedCount(i) ==
  /\ inv[i].pc = "waiting"
  /\ LET shared == CHOOSE m \in {inv[j].retryCount : j \in Invocations} :
                     \A k \in Invocations : m >= inv[k].retryCount
     IN  inv' = [inv EXCEPT ![i] = afterAttempt(inv[i], shared + 1)]
  /\ UNCHANGED << svcVars, routing >>

TimerFire(i) ==
  /\ inv[i].pc = "waiting"
  /\ inv' = [inv EXCEPT ![i] = afterAttempt(inv[i], inv[i].retryCount + 1)]
  /\ UNCHANGED << svcVars, routing >>

\* wreck.request settles: a response arrived (Wreck.read starts reading it), or the
\* call failed and the catch block throws the error naming node and resource.
RequestReturn(i, ok, cause) ==
  /\ inv[i].pc = "forwarding"
  /\ LET v == inv[i]
         e == TransportError(v.node, v.resource, cause)
     IN  inv' = [inv EXCEPT ![i] =
           IF ok
             THEN [v EXCEPT !.pc = "reading"]
             ELSE [v EXCEPT !.pc = "done", !.attemptErr = e,
                            !.unhandled = (v.retryCount > 0),
                            !.result = settleThrow(v.retryCount, e)]]
  /\ UNCHANGED << svcVars, routing >>

\* The promise of Wreck.read, which the attempt returned without awaiting it,
\* settles: with the payload, or with the read's own error (outside the try).
ReadReturn(i, ok, data, cause) ==
  /\ inv[i].pc = "reading"
  /\ LET v == inv[i]
     IN  inv' = [inv EXCEPT ![i] =
           IF ok
             THEN [v EXCEPT !.pc = "done", !.response = data,
                            !.result = settleReturn(v.retryCount, data)]
             ELSE [v EXCEPT !.pc = "done", !.attemptErr = ReadError(cause),
                            !.unhandled = (v.retryCount > 0),
                            !.result = settleThrow(v.retryCount, ReadError(cause))]]
  /\ UNCHANGED << svcVars, routing >>

\* ------------------------------------------------------------------ specifications

\* The service lifecycle, from construction: the configuration stream, setup,
\* start and stop.
Next ==
  \/ \E c \in Configs : Emit(c)
  \/ SetupCall
  \/ SetupSubscribe
  \/ SetupGotConfig
  \/ \E ok \in [TlsFiles -> BOOLEAN] : SetupFilesRead(ok)
  \/ SetupServerCreated
  \/ StartCall
  \/ StartReturn
  \/ StopCall
  \/ StopResume

Spec == Init /\ [][Next]_vars

\* A service that was set up and started while the stream held configuration c
\* (a state Spec reaches: see StartedReachable).
Started(c) ==
  /\ emitted = c
  /\ emittedAfterStop = FALSE
  /\ port = c.port
  /\ maxRetry = c.maxRetry
  /\ requestBackoff = c.requestBackoff
  /\ configSubscription = TRUE
  /\ httpsAgent = configureSSL(c, c.port, HTTPSAgent(0, NoCreds)).agent
  /\ httpAgent = "httpAgent"
  /\ allowUnauthAgent = "allowUnauthAgent"
  /\ wreck = WreckDefaults(httpsAgent, httpAgent, allowUnauthAgent)
  /\ setupPc = "done"
  /\ setupConfig = NoConfig
  /\ setupSsl = NoSsl
  /\ failedReads = {}
  /\ server = [port |-> c.port,
               ssl |-> configureSSL(c, c.port, HTTPSAgent(0, NoCreds)).ssl]
  /\ startPc = "started"
  /\ stopPc = "none"
  /\ stopTrace = << >>

InitDispatch ==
  /\ \E c \in Configs : Started(c)
  /\ routing = [r \in Resources |-> Absent]
  /\ inv = [i \in Invocations |-> IdleInv]

\* The dispatcher of a started service: configuration updates, Routing Store
\* changes and the invocations of the gateway, interleaved.
NextDispatch ==
  \/ \E c \in Configs : Emit(c)
  \/ \E r \in Resources, data \in RoutingNode : AssignResource(r, data)
  \/ \E r \in Resources : UnassignResource(r)
  \/ \E i \in Called, req \in Requests, a \in Resources \cup {NoArg} :
       ProxyCall(i, req, a)
  \/ \E i \in Called, r \in Resources, req \in Requests :
       ProxyResourceCall(i, r, req)
  \/ \E i \in Called : TimerFire(i)
  \/ \E i \in Called, ok \in BOOLEAN, cause \in Causes : RequestReturn(i, ok, cause)
  \/ \E i \in Called, ok \in BOOLEAN, data \in Payloads, cause \in Causes :
       ReadReturn(i, ok, data, cause)

SpecDispatch == InitDispatch /\ [][NextDispatch]_vars

\* Concurrent dispatches on a started service with a stable configuration: every
\* invocation is called with its request alone, while resources are assigned
\* to one node and change state there.
NextConcurrent ==
  \/ \E r \in Resources, st \in RouteState :
       AssignResource(r, [node |-> "n1", state |-> st])
  \/ \E i \in Invocations, req \in Requests : ProxyCall(i, req, NoArg)
  \/ \E i \in Invocations : TimerFire(i)
  \/ \E i \in Invocations, ok \in BOOLEAN, cause \in Causes :
       RequestReturn(i, ok, cause)
  \/ \E i \in Invocations, ok \in BOOLEAN, data \in Payloads, cause \in Causes :
       ReadReturn(i, ok, data, cause)

SpecConcurrent == InitDispatch /\ [][NextConcurrent]_vars

\* SpecDispatch starts from states Spec reaches: TLC finds ~StartedReachable
\* violated under Spec.
StartedReachable == \E c \in Configs : Started(c)

\* ------------------------------------------------------------------ claims: helpers

\* This step ran an attempt of invocation i (its node lookup included).
Attempted(i) == inv'[i].lookups = inv[i].lookups + 1

\* What the Routing Store holds for invocation i's resource during this step.
Owner(i) == routing[inv'[i].resource]

OwnerInitializing(i) == Owner(i) # Absent /\ Owner(i).state = Initializing

OwnerReady(i) == Owner(i) # Absent /\ Owner(i).state # Initializing

\* Invocation i has nothing left that could run: no timer, no call in flight.
Finished(i) == inv[i].pc = "done"

\* ------------------------------------------------------------------ C1

\* C1 (as claimed): an invocation that gave up on an owner that stayed
\* Initializing made at most maxRetry + 1 node lookups and at most maxRetry
\* backoff waits, and no backend call; maxRetry taken as the largest value any
\* of its retry decisions read.
C1_AtMostMaxRetryPlusOneAttempts ==
  \A i \in Invocations :
    inv[i].attemptErr.kind = "RetriesExhausted" =>
      /\ inv[i].lookups <= inv[i].budget + 1
      /\ inv[i].waits <= inv[i].budget
      /\ inv[i].calls = << >>

\* ------------------------------------------------------------------ C2

\* C2 (as claimed): when the retry budget ran out on an Initializing owner, the
\* original caller's promise is rejected with the RetriesExhausted error: it is
\* neither left pending nor resolved.
C2_ExhaustionRejectsCaller ==
  \A i \in Invocations :
    (Finished(i) /\ inv[i].attemptErr.kind = "RetriesExhausted") =>
      inv[i].result = Rejected(RetriesExhaustedError)

\* ------------------------------------------------------------------ C3

\* C3 (as claimed): when an invocation went through at least one backoff and a
\* retried attempt then got the backend's payload, the original caller's promise
\* is resolved with that payload.
C3_RetriedCallerGetsResponse ==
  \A i \in Invocations :
    (Finished(i) /\ inv[i].waits > 0 /\ inv[i].response # Undefined) =>
      inv[i].result = Resolved(inv[i].response)

\* ------------------------------------------------------------------ C4

\* C4 (as claimed): an invocation with nothing left to run has delivered to its
\* original caller: the promise is settled, and an error thrown by whichever
\* attempt ran last (retried or not) is the rejection the caller sees.
C4_FinishedInvocationDelivered ==
  \A i \in Invocations :
    Finished(i) =>
      /\ inv[i].result.state # "pending"
      /\ inv[i].attemptErr # NoErr => inv[i].result = Rejected(inv[i].attemptErr)

\* ------------------------------------------------------------------ C5

\* C5: whenever an attempt looks up a resource that has no Routing Store entry,
\* that proxyRequest call throws the "no node for resource" error naming the
\* resource, the invocation has made and makes no backend call, no timer is
\* armed, and nothing of the invocation runs afterwards; when the call is the
\* top-level one, its caller's promise is rejected with that error.
C5_UnownedFailsWithoutCallOrRetry ==
  [][ \A i \in Invocations :
        /\ (Attempted(i) /\ Owner(i) = Absent) =>
             /\ inv'[i].pc = "done"
             /\ inv'[i].attemptErr =
                  [kind |-> "NoNode", node |-> "-", resource |-> inv'[i].resource,
                   cause |-> "-"]
             /\ inv'[i].calls = << >>
             /\ inv'[i].waits = inv[i].waits
             /\ inv'[i].retryCount = 0 =>
                  inv'[i].result = Rejected(inv'[i].attemptErr)
        /\ inv[i].attemptErr.kind = "NoNode" => inv'[i] = inv[i] ]_vars

\* C5 witness: a top-level call on an unowned resource was rejected with NoNode.
C5_Witness ==
  \E i \in Invocations :
    /\ inv[i].attemptErr.kind = "NoNode"
    /\ inv[i].retryCount = 0
    /\ inv[i].result.state = "rejected"
    /\ routing[inv[i].resource] = Absent

\* ------------------------------------------------------------------ C6

\* C6: an invocation makes a backend call only in an attempt whose lookup finds
\* the owner ready, it has made none before, and the call carries the request's
\* method, path, headers and body with the host set to that owner's address; an
\* attempt that finds the owner ready always makes that call. So an invocation
\* makes at most one backend call over all its attempts, and exactly one once an
\* attempt found the owner ready.
C6_OneCallToReadyOwner ==
  [][ \A i \in Invocations :
        /\ (Attempted(i) /\ OwnerReady(i)) =>
             /\ inv[i].calls = << >>
             /\ Len(inv'[i].calls) = 1
             /\ inv'[i].calls[1].method = inv'[i].req.method
             /\ inv'[i].calls[1].path = inv'[i].req.path
             /\ inv'[i].calls[1].headers = inv'[i].req.headers
             /\ inv'[i].calls[1].payload = inv'[i].req.body
             /\ inv'[i].calls[1].hostname = Owner(i).node
        /\ inv'[i].calls # inv[i].calls => (Attempted(i) /\ OwnerReady(i))
        /\ inv[i].pc # "idle" => inv'[i].req = inv[i].req ]_vars

\* C6 witness: the owner became ready during the first backoff; the second
\* lookup found it ready and exactly one backend call was made.
C6_Witness ==
  \E i \in Invocations :
    /\ inv[i].lookups = 2
    /\ inv[i].waits = 1
    /\ Len(inv[i].calls) = 1
    /\ inv[i].calls[1].payload = inv[i].req.body

\* ------------------------------------------------------------------ C7

\* This step is the failure of invocation i's forwarded backend call: the
\* request, or the reading of its response, ended without a payload.
BackendCallFailed(i) ==
  /\ inv[i].pc \in {"forwarding", "reading"}
  /\ inv'[i].pc = "done"
  /\ inv'[i].response = Undefined

\* C7 (as claimed): when the forwarded backend call fails at transport level,
\* the proxyRequest call that made it throws an error naming the node the
\* request was sent to, the resource and the cause, without a further lookup,
\* timer or backend call, and nothing of the invocation runs afterwards. A timer
\* is armed only by an attempt that found the owner Initializing.
C7_TransportFailureNamedAndNotRetried ==
  [][ \A i \in Invocations :
        /\ BackendCallFailed(i) =>
             /\ inv'[i].attemptErr.node = inv[i].calls[1].hostname
             /\ inv'[i].attemptErr.resource = inv[i].resource
             /\ inv'[i].attemptErr.cause \in Causes
             /\ inv'[i].lookups = inv[i].lookups
             /\ inv'[i].waits = inv[i].waits
             /\ inv'[i].calls = inv[i].calls
        /\ inv[i].attemptErr.kind \in {"Transport", "Read"} => inv'[i] = inv[i]
        /\ inv'[i].waits # inv[i].waits => (Attempted(i) /\ OwnerInitializing(i)) ]_vars

\* C7, the part that holds (TLC finds no violation under SpecDispatch): the same
\* statement for the failures the catch block sees, those of wreck.request.
C7_RequestFailureNamedAndNotRetried ==
  [][ \A i \in Invocations :
        /\ (BackendCallFailed(i) /\ inv[i].pc = "forwarding") =>
             /\ inv'[i].attemptErr.kind = "Transport"
             /\ inv'[i].attemptErr.node = inv[i].calls[1].hostname
             /\ inv'[i].attemptErr.resource = inv[i].resource
             /\ inv'[i].attemptErr.cause \in Causes
             /\ inv'[i].lookups = inv[i].lookups
             /\ inv'[i].waits = inv[i].waits
             /\ inv'[i].calls = inv[i].calls
        /\ inv[i].attemptErr.kind \in {"Transport", "Read"} => inv'[i] = inv[i]
        /\ inv'[i].waits # inv[i].waits => (Attempted(i) /\ OwnerInitializing(i)) ]_vars

\* ------------------------------------------------------------------ C9

\* C9: each attempt that finds the owner Initializing decides with the
\* configuration delivered last: it arms a timer iff its retryCount is at most
\* that configuration's maxRetry, and the timer's delay is that configuration's
\* requestBackoff, whatever the configuration was when the invocation started.
C9_RetryDecisionUsesCurrentConfig ==
  [][ \A i \in Invocations :
        (Attempted(i) /\ OwnerInitializing(i)) =>
          /\ (inv'[i].pc = "waiting") <=> (inv'[i].retryCount <= emitted.maxRetry)
          /\ inv'[i].pc = "waiting" => inv'[i].timer = emitted.requestBackoff
          /\ inv'[i].pc # "waiting" =>
               inv'[i].attemptErr.kind = "RetriesExhausted" ]_vars

\* C9 witness: a configuration update during a backoff shortened the budget: the
\* invocation gave up after fewer lookups than the largest maxRetry it had read
\* allows.
C9_Witness ==
  \E i \in Invocations :
    /\ inv[i].attemptErr.kind = "RetriesExhausted"
    /\ inv[i].lookups < inv[i].budget + 2
    /\ inv[i].waits >= 1

\* ------------------------------------------------------------------ C8

\* C8 (as claimed): once setup has returned and while the subscription is held,
\* the HTTPS agent, and the client the backend calls go through, carry the
\* cert/key/ca of the configuration emitted last.
C8_TlsFollowsLatestConfig ==
  (setupPc = "done" /\ configSubscription) =>
    /\ httpsAgent.creds = ReadFiles(emitted)
    /\ wreck.https.creds = ReadFiles(emitted)

\* ------------------------------------------------------------------ C10

\* C10 (as claimed): a stop() call unsubscribes from the configuration stream
\* before it stops the Routing Store connection: the store is never being
\* stopped, or stopped, while the subscription is still held.
C10_UnsubscribeBeforeStoreStop ==
  \A k \in 1..Len(stopTrace) :
    stopTrace[k] = "clusterDocClient.stop" =>
      /\ ~configSubscription
      /\ \A j \in 1..Len(stopTrace) : stopTrace[j] = "unsubscribe" => j < k

\* C10 (amended): a stop() call stops the Routing Store connection first and
\* unsubscribes from the configuration stream only after that has returned: the
\* call starts with the store's stop and leaves the subscription as it is, and
\* the subscription is dropped only by the step that resumes the call after
\* the store's stop, which records the unsubscribe second.
C10_StoreStopBeforeUnsubscribe ==
  [][ /\ (stopPc # "awaitStore" /\ stopPc' = "awaitStore") =>
           /\ stopTrace' = << "clusterDocClient.stop" >>
           /\ configSubscription' = configSubscription
      /\ (configSubscription /\ ~configSubscription') =>
           /\ stopPc = "awaitStore"
           /\ stopPc' = "stopped"
           /\ stopTrace = << "clusterDocClient.stop" >>
           /\ stopTrace' = << "clusterDocClient.stop", "unsubscribe" >>
      /\ (stopPc = "awaitStore" /\ stopPc' = "stopped") => ~configSubscription'
    ]_vars

\* C10 witness: a stop() call on a subscribed service did both, the store first.
C10_Witness ==
  /\ stopPc = "stopped"
  /\ stopTrace = << "clusterDocClient.stop", "unsubscribe" >>

\* ------------------------------------------------------------------ C11

\* C11: a stop() call made while no subscription is held (a second stop, or a
\* stop before setup subscribed) returns without calling unsubscribe and leaves
\* the service as it was, with no subscription held; unsubscribe is only ever
\* called on a held subscription, and after any completed stop none is held.
C11_StopIdempotent ==
  [][ /\ (stopPc = "awaitStore" /\ stopPc' = "stopped" /\ ~configSubscription) =>
           /\ stopTrace' = << "clusterDocClient.stop" >>
           /\ ~configSubscription'
           /\ UNCHANGED << emitted, emittedAfterStop, cfgFields, agentVars, setupVars, startPc >>
      /\ (Len(stopTrace') = 2 /\ stopTrace' # stopTrace) =>
           (configSubscription /\ ~configSubscription')
      /\ stopPc' = "stopped" => ~configSubscription' ]_vars

\* C11 witness: on a service that was set up (so the first stop unsubscribed), a
\* later stop() has returned without unsubscribing.
C11_Witness ==
  /\ setupPc = "done"
  /\ stopPc = "stopped"
  /\ stopTrace = << "clusterDocClient.stop" >>
  /\ ~configSubscription

\* ------------------------------------------------------------------ C12

\* C12: every attempt of an invocation, the first and each retried one, looks up
\* the explicit resource the top-level call was given (directly or through a
\* callable of proxyResource) and, when none was given, the path of the request.
C12_EffectiveResourceLookedUp ==
  [][ \A i \in Invocations :
        /\ Attempted(i) =>
             inv'[i].looked = IF inv'[i].arg # NoArg THEN inv'[i].arg
                                                     ELSE inv'[i].req.path
        /\ inv[i].pc # "idle" =>
             (inv'[i].arg = inv[i].arg /\ inv'[i].req = inv[i].req) ]_vars

\* C12 witness: a retried attempt looked up the explicit resource, which is not
\* the path of the request.
C12_Witness ==
  \E i \in Invocations :
    /\ inv[i].retryCount >= 1
    /\ inv[i].arg # NoArg
    /\ inv[i].arg # inv[i].req.path
    /\ inv[i].looked = inv[i].arg

\* ------------------------------------------------------------------ C13

\* C13: across setup, credential load, configuration updates and stop, no step
\* changes the plain handle or the unverified-TLS handle, and the only step that
\* changes the verified-TLS handle is the successful end of the credential load.
C13_OnlyHttpsAgentReplaced ==
  [][ /\ httpAgent' = httpAgent
      /\ allowUnauthAgent' = allowUnauthAgent
      /\ httpsAgent' # httpsAgent =>
           (setupPc = "readingFiles" /\ setupPc' = "creatingServer") ]_vars

\* C13 witness: the credentials were loaded, a configuration arrived after
\* setup, the service was stopped, and the two other handles are those of
\* construction.
C13_Witness ==
  /\ setupPc = "done"
  /\ stopPc = "stopped"
  /\ httpsAgent # HTTPSAgent(0, NoCreds)
  /\ httpsAgent.creds # ReadFiles(emitted)
  /\ httpAgent = "httpAgent"
  /\ allowUnauthAgent = "allowUnauthAgent"
  /\ wreck = WreckDefaults(httpsAgent, "httpAgent", "allowUnauthAgent")

\* ------------------------------------------------------------------ C14

\* C14: once one of the three credential files failed to be read, setup has
\* failed for its caller, the verified-TLS handle and the outbound client are
\* still those of construction, and no inbound server was created.
C14_FailedReadFailsSetup ==
  failedReads # {} =>
    /\ setupPc = "failed"
    /\ httpsAgent = HTTPSAgent(0, NoCreds)
    /\ wreck = WreckDefault
    /\ server = NoServer
    /\ startPc = "none"

\* C14 witness: one file failed while the two others were read.
C14_Witness ==
  /\ Cardinality(failedReads) = 1
  /\ setupPc = "failed"

\* ------------------------------------------------------------------ C15

\* C15: every retry looks the owner up again; an attempt that finds the owner
\* ready sends its backend call to the address that very lookup returned,
\* whatever address an earlier attempt waited on; and every backend call is
\* made by an attempt whose own lookup returned the address the call targets.
C15_CallTargetsOwnerOfSameAttempt ==
  [][ \A i \in Invocations :
        /\ inv'[i].retryCount = inv[i].retryCount + 1 => Attempted(i)
        /\ (Attempted(i) /\ OwnerReady(i)) =>
             /\ inv'[i].calls # inv[i].calls
             /\ inv'[i].calls[Len(inv'[i].calls)].hostname = Owner(i).node
        /\ (Attempted(i) /\ OwnerInitializing(i) /\ inv'[i].pc = "waiting") =>
             inv'[i].waitedOn = Owner(i).node
        /\ inv'[i].calls # inv[i].calls =>
             /\ Attempted(i)
             /\ Owner(i) # Absent
             /\ inv'[i].calls[Len(inv'[i].calls)].hostname = Owner(i).node ]_vars

\* C15 witness: the resource was reassigned during a backoff; the retry sent the
\* backend call to the new owner and not to the address waited on.
C15_Witness ==
  \E i \in Invocations :
    /\ inv[i].retryCount >= 1
    /\ inv[i].waitedOn # "-"
    /\ Len(inv[i].calls) = 1
    /\ inv[i].calls[1].hostname # inv[i].waitedOn
    /\ inv[i].calls[1].hostname = routing[inv[i].resource].node

\* ------------------------------------------------------------------ C16

\* C16 (as claimed): once setup has returned and while the subscription is held,
\* port, maxRetry and requestBackoff are those of the configuration emitted
\* last, also when a newer configuration was emitted while setup was awaiting
\* the first one.
C16_FieldsOfLatestConfig ==
  (setupPc = "done" /\ configSubscription) =>
    /\ port = emitted.port
    /\ maxRetry = emitted.maxRetry
    /\ requestBackoff = emitted.requestBackoff

\* ------------------------------------------------------------------ C18

\* C18: once a stop() has completed on a service that was set up, no step, and
\* in particular no configuration emitted later, changes port, maxRetry or
\* requestBackoff, and the subscription is not held again.
C18_NoConfigAppliedAfterStop ==
  [][ (setupPc = "done" /\ stopPc = "stopped") =>
        /\ UNCHANGED cfgFields
        /\ ~configSubscription' ]_vars

\* C18 witness: a configuration with another port was emitted after stop() had
\* returned, and the service still holds the port it had.
C18_Witness ==
  /\ setupPc = "done"
  /\ stopPc = "stopped"
  /\ emittedAfterStop
  /\ port # emitted.port
  /\ port = server.port

\* ------------------------------------------------------------------ C17

\* C17: concurrent invocations share no retry state. A step changes at most one
\* invocation; an invocation's retry count changes only when its own timer
\* fires, by one; and whether an attempt that finds the owner Initializing arms
\* a timer depends on that invocation's own count and the configured maxRetry
\* alone, whatever the count of the other invocation.
C17_RetryStatePerInvocation ==
  [][ /\ \A i, j \in Invocations :
           i # j => (inv'[i] = inv[i] \/ inv'[j] = inv[j])
      /\ \A i \in Invocations :
           /\ inv'[i].retryCount # inv[i].retryCount =>
                /\ inv[i].pc = "waiting"
                /\ inv'[i].retryCount = inv[i].retryCount + 1
           /\ (Attempted(i) /\ OwnerInitializing(i)) =>
                (inv'[i].pc = "waiting" <=> inv'[i].retryCount <= maxRetry) ]_vars

\* C17 witness: two invocations wait on the same Initializing resource at the
\* same time; one has used up its retries while the other, called later, is
\* still in its first backoff.
C17_Witness ==
  \E i, j \in Invocations :
    /\ i # j
    /\ inv[i].resource = inv[j].resource
    /\ inv[i].attemptErr.kind = "RetriesExhausted"
    /\ inv[i].retryCount = maxRetry + 1
    /\ inv[j].pc = "waiting"
    /\ inv[j].retryCount = 0

====
